---- MODULE Spec2Model ----
(***************************************************************************)
(* A model of the Pico decoder (src/src/model/pico_decoder.py).            *)
(*                                                                         *)
(* Tensors are modelled for one batch row.  A vector that the program      *)
(* computes with floating-point arithmetic is modelled as the symbolic     *)
(* term of the operations that produced it (which weights, which inputs,   *)
(* which row of the frequency table, which context positions the softmax   *)
(* gives non-zero weight): two equal terms denote the same computation on  *)
(* the same operands and so the same value.  A Python value that may be    *)
(* None is a record [present, val]; a call's outcome carries the exception *)
(* it raised, "none" when it returned.                                     *)
(***************************************************************************)
EXTENDS Integers, Sequences, FiniteSets, TLC

VARIABLES
    freqs_cis_tensor,   \* RoPE._freqs_cis_tensor, the class attribute
    pc,                 \* RoPE.__init__: each constructing thread's position
    rope,               \* RoPE.__init__: each thread's instance (self)
    nbuilds,            \* number of _setup_freqs_cis calls made so far
    config,             \* the ModelConfig of the decoder under test
    weights,            \* the weight matrix of each regularization target
    past_key_values,    \* the cache the caller holds for the running session
    fed,                \* the running session: the tokens its cache covers
    call,               \* the PicoDecoder.forward call just made, its outcome
    rope_call,          \* the direct RoPE.forward call just made, its outcome
    loss_call,          \* the regularization-loss call just made
    buffers,            \* power iterations run on the spectral_norm buffers
    train_call,         \* the training sub-batch just run, its outcome
    attn,               \* the Attention module constructed from config
    attn_call,          \* the Attention.forward call just made, its outcome
    trainer             \* the Trainer: its configs, its loop, what it has done

vars == <<freqs_cis_tensor, pc, rope, nbuilds, config, weights,
          past_key_values, fed, call, rope_call, loss_call,
          buffers, train_call, attn, attn_call, trainer>>

----------------------------------------------------------------------------
(* Bounds of the model *)

NThreads == 2       \* threads constructing RoPE instances
NLayers == 2        \* config.n_layers of the decoder under test
MaxSeqLen == 5      \* config.max_seq_len of the decoder under test
MaxInputLen == 3    \* longest input_ids of one forward call
MaxStartPos == 6    \* largest start_pos of a direct RoPE.forward call
MaxPowerIterations == 2     \* power iterations of spectral_norm followed
MaxHeads == 4       \* largest attention_n_heads and attention_n_kv_heads
MaxSteps == 3       \* largest max_steps of a training run
MaxEvery == 2       \* largest accumulation, logging and saving interval
MaxSubBatches == 6  \* most sub-batches the data iterator holds

----------------------------------------------------------------------------
(* Python values *)

None == [present |-> FALSE, val |-> <<>>]
Some(v) == [present |-> TRUE, val |-> v]

Min(a, b) == IF a <= b THEN a ELSE b

\* f[1] + ... + f[n]
RECURSIVE SumTo(_, _)
SumTo(f, n) == IF n = 0 THEN 0 ELSE f[n] + SumTo(f, n - 1)

\* (mutant) positions beyond the end wrap around to the start
Slice_Wrap(seq, start, end) ==
    [i \in 1..(end - start) |-> seq[((start + i - 1) % Len(seq)) + 1]]

\* seq[start:end] for 0 <= start, 0 <= end: out-of-range bounds are clipped
Slice(seq, start, end) ==
    SubSeq(seq, Min(start, Len(seq)) + 1, Min(end, Len(seq)))

----------------------------------------------------------------------------
(* RoPE *)

\* The angle p * theta^(-2i/dim) of position p and channel pair i, as a term.
\* dim // 2 pairs per row, seq_len rows.
_setup_freqs_cis(seq_len, theta, dim) ==
    [shape |-> <<seq_len, dim \div 2>>,
     rows |-> [p1 \in 1..seq_len |->
                 [i1 \in 1..(dim \div 2) |->
                     [pos |-> p1 - 1, pair |-> i1 - 1,
                      theta |-> theta, dim |-> dim]]]]

\* A tensor object: its identity and its contents.
Tensor(id, t) == [id |-> id, shape |-> t.shape, rows |-> t.rows]

\* The configurations RoPE instances are constructed with.
RopeConfigs ==
    { [position_emb_theta |-> th, d_model |-> 8, attention_n_heads |-> 2,
       max_seq_len |-> n] : th \in {10000, 500}, n \in {MaxSeqLen, MaxSeqLen + 1} }

Threads == 1..NThreads

NoRoPE == [theta |-> 0, dim |-> 0, max_seq_len |-> 0, _freqs_cis |-> None]

\* lines 124-129: self.theta, self.dim, max_seq_len
RoPE_init_begin(t) ==
    /\ pc[t] = "new"
    /\ \E cfg \in RopeConfigs :
          rope' = [rope EXCEPT ![t] =
                      [theta |-> cfg.position_emb_theta,
                       dim |-> cfg.d_model \div cfg.attention_n_heads,
                       max_seq_len |-> cfg.max_seq_len,
                       _freqs_cis |-> None]]
    /\ pc' = [pc EXCEPT ![t] = "check"]
    /\ UNCHANGED <<freqs_cis_tensor, nbuilds, config, weights,
                   past_key_values, fed, call, rope_call, loss_call,
                   buffers, train_call, attn, attn_call, trainer>>

\* line 132: if RoPE._freqs_cis_tensor is None
RoPE_init_check(t) ==
    /\ pc[t] = "check"
    /\ pc' = [pc EXCEPT ![t] =
                IF freqs_cis_tensor.present THEN "register" ELSE "build"]
    /\ UNCHANGED <<freqs_cis_tensor, rope, nbuilds, config, weights,
                   past_key_values, fed, call, rope_call, loss_call,
                   buffers, train_call, attn, attn_call, trainer>>

\* lines 133-135: the table is built and stored in the class attribute; no
\* lock is held between the test of line 132 and this store
RoPE_init_build(t) ==
    /\ pc[t] = "build"
    /\ nbuilds' = nbuilds + 1
    /\ freqs_cis_tensor' =
          Some(Tensor(nbuilds + 1,
                      _setup_freqs_cis(rope[t].max_seq_len, rope[t].theta,
                                       rope[t].dim)))
    /\ pc' = [pc EXCEPT ![t] = "register"]
    /\ UNCHANGED <<rope, config, weights, past_key_values, fed, call,
                   rope_call, loss_call,
                   buffers, train_call, attn, attn_call, trainer>>

\* line 139: self._freqs_cis_tensor resolves to the class attribute
RoPE_init_register(t) ==
    /\ pc[t] = "register"
    /\ rope' = [rope EXCEPT ![t]._freqs_cis = freqs_cis_tensor]
    /\ pc' = [pc EXCEPT ![t] = "done"]
    /\ UNCHANGED <<freqs_cis_tensor, nbuilds, config, weights,
                   past_key_values, fed, call, rope_call, loss_call,
                   buffers, train_call, attn, attn_call, trainer>>

\* lines 157-171: the rows start_pos..end_pos-1 of the buffer; the slice is
\* clipped to the buffer, the assertion of line 167 compares its shape with
\* (seq_len, head_dim / 2) of the complex view of the queries
RoPE_get_freqs_cis(self, input_shape, start_pos, end_pos) ==
    LET buf == self._freqs_cis.val
        _freqs_cis == Slice(buf.rows, start_pos, end_pos)
        shape == <<Len(_freqs_cis), buf.shape[2]>>
    IN  IF shape # <<input_shape[1], input_shape[2]>>
        THEN [raised |-> "AssertionError", freqs_cis |-> <<>>]
        \* line 171: view() needs as many elements as the target shape
        ELSE IF shape[1] * shape[2] # input_shape[1] * input_shape[2]
        THEN [raised |-> "RuntimeError", freqs_cis |-> <<>>]
        ELSE [raised |-> "none", freqs_cis |-> _freqs_cis]

\* lines 173-200: queries and keys are sequences (one entry per position) of
\* vectors of width head_dim; the vector at index i is multiplied by the row
\* of the table that get_freqs_cis returned at index i
RoPE_forward(self, queries, keys, head_dim, start_pos) ==
    LET input_shape == <<Len(queries), head_dim \div 2>>
        freqs_start_pos == start_pos
        freqs_end_pos == freqs_start_pos + Len(queries)
        \* lines 192-198, given the outcome f of get_freqs_cis
        Rotate(f) ==
            IF f.raised # "none"
            THEN [raised |-> f.raised, queries |-> <<>>, keys |-> <<>>]
            ELSE [raised |-> "none",
                  queries |-> [i \in 1..Len(queries) |->
                                  <<"rope", f.freqs_cis[i], queries[i]>>],
                  keys |-> [i \in 1..Len(keys) |->
                               <<"rope", f.freqs_cis[i], keys[i]>>]]
    IN  IF head_dim % 2 # 0
        THEN [raised |-> "RuntimeError", queries |-> <<>>, keys |-> <<>>]
        ELSE Rotate(RoPE_get_freqs_cis(self, input_shape, freqs_start_pos,
                                       freqs_end_pos))

----------------------------------------------------------------------------
(* The rotation in exact arithmetic *)

\* A complex number is a pair <<re, im>> of integers over a denominator kept
\* beside it.

\* (mutant) the real part adds the product of the imaginary parts
ComplexMul_Conjugate(a, b) ==
    <<a[1] * b[1] + a[2] * b[2], a[1] * b[2] + a[2] * b[1]>>

\* lines 197-198: the product of two complex numbers
ComplexMul(a, b) ==
    <<a[1] * b[1] - a[2] * b[2], a[1] * b[2] + a[2] * b[1]>>

RECURSIVE ComplexPow(_, _)
ComplexPow(u, n) ==
    IF n = 0 THEN <<1, 0>> ELSE ComplexMul(u, ComplexPow(u, n - 1))

RECURSIVE IntPow(_, _)
IntPow(b, n) == IF n = 0 THEN 1 ELSE b * IntPow(b, n - 1)

\* cos and sin of the angle theta^(-2i/dim) of channel pair i, line 152, over
\* the denominator CisDen: a rational point of the unit circle stands for
\* the pair's irrational one, a smaller angle for a later pair
CisDen == 5
UnitAngle(pair) == IF pair % 2 = 0 THEN <<3, 4>> ELSE <<4, 3>>

\* lines 153-155: torch.polar(ones_like(freqs), freqs) at an entry of the
\* table, whose angle is pos times the angle of its pair
polar(entry) ==
    [num |-> ComplexPow(UnitAngle(entry.pair), entry.pos),
     den |-> IntPow(CisDen, entry.pos)]

\* lines 185-188: adjacent channels (x_2j, x_2j+1) as one complex number
view_as_complex(v) == [j \in 1..(Len(v) \div 2) |-> <<v[2 * j - 1], v[2 * j]>>]

\* lines 197-198: view_as_real(...).flatten(3)
view_as_real(c) == [k \in 1..(2 * Len(c)) |-> c[(k + 1) \div 2][2 - (k % 2)]]

\* The value of the term <<"rope", row, x>> that RoPE_forward returns, when
\* its operand x has the value v: the channels num over the denominator den
\* (every entry of one row has the row's position, so one denominator)
Rotated(term, v) ==
    LET row == term[2]
        v_ == view_as_complex(v)
    IN  [num |-> view_as_real([j \in 1..Len(v_) |->
                                  ComplexMul(v_[j], polar(row[j]).num)]),
         den |-> polar(row[1]).den]

\* the square of the Euclidean norm
NormSquared(v) == SumTo([k \in 1..Len(v) |-> v[k] * v[k]], Len(v))

----------------------------------------------------------------------------
(* Attention *)

NegInf == -1        \* float("-inf") in an additive mask; 0 is "attend"

\* F.scaled_dot_product_attention: the output at query position i is the
\* softmax-weighted sum of the values; a context position whose additive mask
\* entry is -inf gets weight exactly 0 and does not enter the result
scaled_dot_product_attention(queries, keys, values, attn_mask) ==
    [i \in 1..Len(queries) |->
        <<"sdpa", queries[i],
          { <<j, keys[j], values[j]>> :
                j \in { jj \in 1..Len(keys) : attn_mask[i][jj] = 0 } }>>]

\* (mutant) the new positions come before the cached ones
CatPast_NewFirst(past_kv, k, new) ==
    IF past_kv.present THEN new \o past_kv.val[k].val ELSE new

\* (mutant) the cached values are prepended twice
CatPast_Twice(past_kv, k, new) ==
    IF ~past_kv.present THEN new
    ELSE IF k = 2 THEN past_kv.val[k].val \o past_kv.val[k].val \o new
    ELSE past_kv.val[k].val \o new

\* lines 306-308: torch.cat([past_key_values[k], new], dim=1)
CatPast(past_kv, k, new) ==
    IF past_kv.present THEN past_kv.val[k].val \o new ELSE new

\* (mutant) the new keys and values are cached before the concatenation
ExtendWithPast_CacheNew(past_kv, use_cache, keys, values) ==
    [keys |-> CatPast(past_kv, 1, keys),
     values |-> CatPast(past_kv, 2, values),
     cache |-> IF use_cache THEN <<Some(keys), Some(values)>>
               ELSE <<None, None>>]

\* lines 306-315: the context the attention runs over, and the cache entry
\* the call returns
ExtendWithPast(past_kv, use_cache, keys, values) ==
    LET keys_all == CatPast(past_kv, 1, keys)
        values_all == CatPast(past_kv, 2, values)
    IN  [keys |-> keys_all, values |-> values_all,
         cache |-> IF use_cache THEN <<Some(keys_all), Some(values_all)>>
                   ELSE <<None, None>>]

\* lines 341-342: self.o_proj of layer l, position by position
O_proj(l, attn_output) ==
    [i \in 1..Len(attn_output) |-> <<"o_proj", l, attn_output[i]>>]

\* (mutant) the rotation always starts from the first row of the table
Attention_start_pos_Zero(past_kv) == 0

\* line 301: the length of the cached keys, or 0 without a cache
Attention_start_pos(past_kv) ==
    IF past_kv.present THEN Len(past_kv.val[1].val) ELSE 0

AttentionRaise(e) ==
    [raised |-> e, output |-> <<>>, cache |-> <<None, None>>]

\* lines 264-344, for layer l (its own q_proj, k_proj, v_proj, o_proj).
\* past_key_values is None or Some(<<keys, values>>) of this layer.
Attention_forward(self, l, input, mask, past_kv, use_cache) ==
    LET seq_len == Len(input)
        queries == [i \in 1..seq_len |-> <<"q_proj", l, input[i]>>]
        keys == [i \in 1..seq_len |-> <<"k_proj", l, input[i]>>]
        values == [i \in 1..seq_len |-> <<"v_proj", l, input[i]>>]
        head_dim == self.d_model \div self.attention_n_heads
        \* line 301 reads .shape of the cached keys
        bad_past == past_kv.present /\ ~past_kv.val[1].present
        start_pos == Attention_start_pos(past_kv)
        \* lines 334-344, given the rotated queries and the outcome kv of
        \* lines 306-315
        Attend(rotated_queries, kv) ==
            \* line 337: mask.to(queries.dtype) is evaluated whatever mask is
            IF ~mask.present THEN AttentionRaise("AttributeError")
            ELSE IF \/ Len(mask.val) # seq_len
                    \/ \E i \in 1..Len(mask.val) :
                          Len(mask.val[i]) # Len(kv.keys)
            THEN AttentionRaise("RuntimeError")
            ELSE [raised |-> "none",
                  output |-> O_proj(l, scaled_dot_product_attention(
                                           rotated_queries, kv.keys,
                                           kv.values, mask.val)),
                  cache |-> kv.cache]
        \* lines 303-344, given the outcome r of self.rope
        AfterRoPE(r) ==
            IF r.raised # "none" THEN AttentionRaise(r.raised)
            ELSE Attend(r.queries,
                        ExtendWithPast(past_kv, use_cache, r.keys, values))
    IN  IF bad_past THEN AttentionRaise("AttributeError")
        ELSE AfterRoPE(RoPE_forward([_freqs_cis |-> freqs_cis_tensor],
                                    queries, keys, head_dim, start_pos))

----------------------------------------------------------------------------
(* Attention: the head axis *)

\* A tensor of shape (seq_len, heads, head_dim) for one batch row: at[i][h]
\* is the vector, of width head_dim, of position i and head h.
HeadTensor(heads, head_dim, at) ==
    [heads |-> heads, head_dim |-> head_dim, at |-> at]

\* lines 231-262, in a process that has built no frequency table yet.
\* Lines 245 and 247 divide by the head counts; nn.Linear accepts any
\* non-negative sizes.
Attention_init(cfg) ==
    IF cfg.attention_n_heads = 0 \/ cfg.attention_n_kv_heads = 0
    THEN [raised |-> "ZeroDivisionError"]
    ELSE LET n_heads == cfg.attention_n_heads
             n_kv_heads == cfg.attention_n_kv_heads
             head_dim == cfg.d_model \div n_heads
         IN  [raised |-> "none",
              normalization_strategy |-> cfg.rank_normalization_strategy,
              n_heads |-> n_heads,
              n_kv_heads |-> n_kv_heads,
              max_seq_len |-> cfg.max_seq_len,
              d_model |-> cfg.d_model,
              head_dim |-> head_dim,
              n_rep |-> n_heads \div n_kv_heads,
              q_proj |-> [in_features |-> cfg.d_model,
                          out_features |-> n_heads * head_dim],
              k_proj |-> [in_features |-> cfg.d_model,
                          out_features |-> n_kv_heads * head_dim],
              v_proj |-> [in_features |-> cfg.d_model,
                          out_features |-> n_kv_heads * head_dim],
              o_proj |-> [in_features |-> n_heads * head_dim,
                          out_features |-> cfg.d_model],
              rope |-> [theta |-> cfg.position_emb_theta,
                        dim |-> cfg.d_model \div n_heads]]

\* (mutant) tensors of any sizes are concatenated
SizesMatch_Any(a, b) == TRUE

\* torch.cat(dim=1) requires equal sizes in every other dimension
SizesMatch(a, b) == a.heads = b.heads /\ a.head_dim = b.head_dim

\* lines 306-308 on tensors with a head axis: torch.cat([past, new], dim=1)
cat(past, new) ==
    IF ~SizesMatch(past, new)
    THEN [raised |-> "RuntimeError", t |-> new]
    ELSE [raised |-> "none",
          t |-> HeadTensor(new.heads, new.head_dim, past.at \o new.at)]

\* lines 327-328: t.repeat_interleave(n, dim=-3); head h of the result
\* (counting from 0) is head h div n of t
repeat_interleave(t, n) ==
    HeadTensor(t.heads * n, t.head_dim,
               [i \in 1..Len(t.at) |->
                   [h \in 1..(t.heads * n) |-> t.at[i][((h - 1) \div n) + 1]]])

\* (mutant) every query head reads the first key/value head
KVHead_First(h, q_heads, kv_heads) == 1

\* (mutant) query head h reads the key/value head after its own
KVHead_Next(h, q_heads, kv_heads) == (h % kv_heads) + 1

\* the key/value head that head h of the attention output reads (heads
\* counted from 1): h div (q_heads / kv_heads) counting from 0 when the
\* kernel groups the query heads, h itself when the head counts are equal,
\* the only one when kv_heads = 1
KVHead(h, q_heads, kv_heads) ==
    IF kv_heads = 1 THEN 1
    ELSE IF q_heads = 1 THEN h
    ELSE ((h - 1) \div (q_heads \div kv_heads)) + 1

\* F.scaled_dot_product_attention on tensors with a head axis.  With
\* enable_gqa the key/value head count must divide the query head count;
\* without it the head axes are broadcast against each other.
sdpa_heads(queries, keys, values, attn_mask, enable_gqa) ==
    LET broadcastable == \/ queries.heads = keys.heads
                         \/ queries.heads = 1
                         \/ keys.heads = 1
        out_heads == IF queries.heads = 1 THEN keys.heads ELSE queries.heads
        QHead(h) == IF queries.heads = 1 THEN 1 ELSE h
    IN  IF \/ enable_gqa /\ queries.heads % keys.heads # 0
           \/ ~enable_gqa /\ ~broadcastable
           \/ queries.head_dim # keys.head_dim
           \/ keys.heads # values.heads
           \/ Len(attn_mask) # Len(queries.at)
           \/ \E i \in 1..Len(attn_mask) :
                 Len(attn_mask[i]) # Len(keys.at)
        THEN [raised |-> "RuntimeError", t |-> HeadTensor(0, 0, <<>>)]
        ELSE [raised |-> "none",
              t |-> HeadTensor(
                      out_heads, values.head_dim,
                      [i \in 1..Len(queries.at) |->
                          [h \in 1..out_heads |->
                              LET g == KVHead(h, queries.heads, keys.heads)
                              IN  <<"sdpa", queries.at[i][QHead(h)],
                                    { <<j, keys.at[j][g], values.at[j][g]>> :
                                         j \in { jj \in 1..Len(keys.at) :
                                                   attn_mask[i][jj] = 0 }
                                    }>>]])]

\* (mutant) the output projection takes an input of any width
Linear_accepts_Any(layer, width) == TRUE

\* F.linear requires the last dimension of its input to be in_features
Linear_accepts(layer, width) == width = layer.in_features

\* the outcome of a call that raised e
AttentionHeadsRaise(e) ==
    [raised |-> e, output |-> <<>>, shape |-> <<>>, cache |-> <<None, None>>,
     path |-> "", queries |-> HeadTensor(0, 0, <<>>),
     keys |-> HeadTensor(0, 0, <<>>), values |-> HeadTensor(0, 0, <<>>),
     attn_output |-> HeadTensor(0, 0, <<>>)]

\* lines 264-344 with the head axis, on device `device`; input is the
\* sequence of the d_model-wide input vectors, past_key_values is None or
\* Some(<<keys, values>>) of tensors with a head axis.  The result names the
\* path taken: "grouped" (enable_gqa), "repeat" (lines 324-329) or "plain",
\* and keeps the operands of lines 317-319 and the attention output of line
\* 332 next to what the call returns.
Attention_forward_heads(self, device, input, mask, past_kv, use_cache) ==
    LET seq_len == Len(input)
        \* lines 288-296
        queries == [i \in 1..seq_len |->
                       [h \in 1..self.n_heads |-> <<"q_proj", h, input[i]>>]]
        keys == [i \in 1..seq_len |->
                    [h \in 1..self.n_kv_heads |-> <<"k_proj", h, input[i]>>]]
        values == HeadTensor(
                     self.n_kv_heads, self.head_dim,
                     [i \in 1..seq_len |->
                         [h \in 1..self.n_kv_heads |->
                             <<"v_proj", h, input[i]>>]])
        start_pos == IF past_kv.present THEN Len(past_kv.val[1].at) ELSE 0
        \* the rotation of lines 197-198 acts on every head with the row of
        \* its position (the view of line 171 has size 1 on the head axis)
        Heads(rotated, n) ==
            HeadTensor(n, self.head_dim,
                       [i \in 1..Len(rotated) |->
                           [h \in 1..n |->
                               <<"rope", rotated[i][2], rotated[i][3][h]>>]])
        apply_gqa == self.n_rep > 1
        repeat == apply_gqa /\ device = "mps"
        \* lines 341-344
        Project(a, q, k, v) ==
            IF a.raised # "none" THEN AttentionHeadsRaise(a.raised)
            ELSE IF ~Linear_accepts(self.o_proj, a.t.heads * a.t.head_dim)
            THEN AttentionHeadsRaise("RuntimeError")
            ELSE [raised |-> "none",
                  output |-> O_proj(1, a.t.at),
                  shape |-> <<seq_len, self.o_proj.out_features>>,
                  cache |-> IF use_cache THEN <<Some(k), Some(v)>>
                            ELSE <<None, None>>,
                  path |-> IF repeat THEN "repeat"
                           ELSE IF apply_gqa THEN "grouped" ELSE "plain",
                  queries |-> q, keys |-> k, values |-> v,
                  attn_output |-> a.t]
        \* lines 310-339
        Attend(q, k, v) ==
            \* line 337: mask.to(queries.dtype) is evaluated whatever mask is
            IF ~mask.present THEN AttentionHeadsRaise("AttributeError")
            ELSE Project(
                    IF repeat
                    THEN sdpa_heads(q, repeat_interleave(k, self.n_rep),
                                    repeat_interleave(v, self.n_rep),
                                    mask.val, FALSE)
                    ELSE sdpa_heads(q, k, v, mask.val, apply_gqa),
                    q, k, v)
        \* lines 306-308
        Extend(q, k, v) ==
            IF k.raised # "none" THEN AttentionHeadsRaise(k.raised)
            ELSE IF v.raised # "none" THEN AttentionHeadsRaise(v.raised)
            ELSE Attend(q, k.t, v.t)
        \* lines 303-308, given the outcome r of self.rope
        AfterRoPE(r) ==
            IF r.raised # "none" THEN AttentionHeadsRaise(r.raised)
            ELSE IF past_kv.present
            THEN Extend(Heads(r.queries, self.n_heads),
                        cat(past_kv.val[1], Heads(r.keys, self.n_kv_heads)),
                        cat(past_kv.val[2], values))
            ELSE Attend(Heads(r.queries, self.n_heads),
                        Heads(r.keys, self.n_kv_heads), values)
    IN  AfterRoPE(RoPE_forward([_freqs_cis |-> freqs_cis_tensor], queries,
                               keys, self.head_dim, start_pos))

----------------------------------------------------------------------------
(* PicoDecoderBlock *)

\* lines 418-435.  h = input + attention_output and
\* out = h + swiglu(swiglu_norm(h)) are computed position by position from
\* input[i] and the attention output at i: the term names that pair once.
PicoDecoderBlock_forward(self, l, input, mask, past_kv, use_cache) ==
    LET normed == [i \in 1..Len(input) |-> <<"attention_norm", l, input[i]>>]
        \* lines 428-435, given the outcome a of self.attention
        Residual(a) ==
            IF a.raised # "none"
            THEN [raised |-> a.raised, out |-> <<>>, cache |-> a.cache]
            ELSE [raised |-> "none",
                  out |-> [i \in 1..Len(input) |->
                              <<"block", l, input[i], a.output[i]>>],
                  cache |-> a.cache]
    IN  Residual(Attention_forward(self, l, normed, mask, past_kv,
                                   use_cache))

----------------------------------------------------------------------------
(* PicoDecoder *)

\* torch.full((n, n), v)
Full(n, v) == [i \in 1..n |-> [j \in 1..n |-> v]]

\* torch.zeros((r, c))
Zeros(r, c) == [i \in 1..r |-> [j \in 1..c |-> 0]]

\* (mutant) the lower triangle is kept instead of the upper one
Triu_Lower(m, diagonal) ==
    [i \in 1..Len(m) |->
        [j \in 1..Len(m[i]) |-> IF i - j >= diagonal THEN m[i][j] ELSE 0]]

\* torch.triu(m, diagonal): entries with j - i >= diagonal kept, others 0
Triu(m, diagonal) ==
    [i \in 1..Len(m) |->
        [j \in 1..Len(m[i]) |-> IF j - i >= diagonal THEN m[i][j] ELSE 0]]

\* torch.hstack([a, b])
HStack(a, b) == [i \in 1..Len(a) |-> a[i] \o b[i]]

\* (mutant) the zeros for the cached tokens are stacked on the right
CausalMask_ZerosRight(seq_len, past, start_pos) ==
    IF seq_len > 1
    THEN LET mask == Triu(Full(seq_len, NegInf), 1)
         IN  IF past.present
             THEN Some(HStack(mask, Zeros(seq_len, start_pos)))
             ELSE Some(mask)
    ELSE None

\* lines 565-576
CausalMask(seq_len, past, start_pos) ==
    IF seq_len > 1
    THEN LET mask == Triu(Full(seq_len, NegInf), 1)
         IN  IF past.present
             THEN Some(HStack(Zeros(seq_len, start_pos), mask))
             ELSE Some(mask)
    ELSE None

\* (mutant) every layer is handed the entry of the first layer
LayerPast_First(past, idx) ==
    IF past.present THEN Some(past.val[1]) ELSE None

\* the past_key_values entry the loop of lines 583-593 hands to layer idx
LayerPast(past, idx) == IF past.present THEN Some(past.val[idx]) ELSE None

\* lines 583-593: the layers from idx on, in index order; cached is the
\* tuple accumulated so far
RECURSIVE RunLayers(_, _, _, _, _, _, _)
RunLayers(self, idx, h, mask, past, use_cache, cached) ==
    IF idx > self.n_layers
    THEN [raised |-> "none", h |-> h, cached |-> cached]
    ELSE LET \* lines 589-593, given the outcome b of layer idx
             Rest(b) ==
                 IF b.raised # "none"
                 THEN [raised |-> b.raised, h |-> <<>>, cached |-> <<>>]
                 ELSE RunLayers(self, idx + 1, b.out, mask, past, use_cache,
                                IF use_cache THEN Append(cached, b.cache)
                                ELSE cached)
         IN  Rest(PicoDecoderBlock_forward(self, idx, h, mask,
                                           LayerPast(past, idx), use_cache))

\* (mutant) the tensor keeps its dtype
Float_Keep(t) == t

\* line 597: Tensor.float()
Float(t) == <<"float", t>>

\* the dtypes the weights and activations may be computed in
DTypes == {"torch.float32", "torch.bfloat16", "torch.float16"}

\* the dtype of the tensor a term denotes when the modules compute in
\* compute_dtype: float32 after .float(), the modules' dtype otherwise
dtype(t, compute_dtype) ==
    IF t[1] = "float" THEN "torch.float32" ELSE compute_dtype

\* lines 536-599; self is the model's config.  The result's cache is None
\* or Some(tuple of per-layer <<keys, values>> entries).
PicoDecoder_forward(self, input_ids, past, use_cache) ==
    LET seq_len == Len(input_ids)
        h == [i \in 1..seq_len |-> <<"embedding_proj", input_ids[i]>>]
        start_pos == IF ~past.present THEN 0 ELSE Len(past.val[1][1].val)
        \* lines 595-599, given the mask and the outcome r of the layers
        Output(mask, r) ==
            IF r.raised # "none"
            THEN [raised |-> r.raised, logits |-> <<>>, cache |-> None,
                  mask |-> mask]
            ELSE [raised |-> "none",
                  logits |-> [i \in 1..seq_len |->
                                 Float(<<"de_embedding_proj",
                                         <<"output_norm", r.h[i]>>>>)],
                  cache |-> IF use_cache THEN Some(r.cached) ELSE None,
                  mask |-> mask]
        \* lines 583-599, given the mask of lines 565-576
        Layers(mask) ==
            Output(mask, RunLayers(self, 1, h, mask, past, use_cache, <<>>))
    IN  Layers(CausalMask(seq_len, past, start_pos))

\* lines 459-473: the attributes __init__ sets on the model
PicoDecoder_init(model_config) ==
    [config |-> model_config,
     embedding_proj |-> "Embedding",
     layers |-> model_config.n_layers,
     output_norm |-> "RMSNorm",
     de_embedding_proj |-> "Linear"]

\* lines 453-457
TARGET_MODULES ==
    { <<"attention", "v_proj">>, <<"attention", "o_proj">>,
      <<"swiglu", "w_2">> }

\* self.named_modules(): the dotted names below layers.<l>, as paths (layer
\* 0 stands for the modules outside the layers)
named_modules(self) ==
    { [layer |-> 0, path |-> q] :
         q \in { <<>>, <<"embedding_proj">>, <<"layers">>, <<"output_norm">>,
                 <<"de_embedding_proj">> } }
    \cup
    { [layer |-> l, path |-> q] :
         l \in 1..self.layers,
         q \in { <<>>, <<"attention">>, <<"attention", "q_proj">>,
                 <<"attention", "k_proj">>, <<"attention", "v_proj">>,
                 <<"attention", "o_proj">>, <<"attention", "rope">>,
                 <<"swiglu">>, <<"swiglu", "w_0">>, <<"swiglu", "w_1">>,
                 <<"swiglu", "w_2">>, <<"attention_norm">>,
                 <<"swiglu_norm">> } }

\* target_module in name, on paths
InName(target, path) ==
    \E k \in 0..(Len(path) - Len(target)) :
        SubSeq(path, k + 1, k + Len(target)) = target

\* (mutant) only the attention projections are selected
TargetsOf_AttentionOnly(self) ==
    { m \in named_modules(self) :
         \E target_module \in TARGET_MODULES :
            /\ target_module[1] = "attention"
            /\ InName(target_module, m.path) }

\* the modules the loops of lines 493-494 and 513-514 select
TargetsOf(self) ==
    { m \in named_modules(self) :
         \E target_module \in TARGET_MODULES : InName(target_module, m.path) }

\* 2 x 2 weight matrices, as rows of integers
Identity == << <<1, 0>>, <<0, 1>> >>
Shear == << <<1, 1>>, <<0, 1>> >>
Mats == {Identity, Shear}

\* weight matrices (out_features rows, in_features columns) with and without
\* orthonormal columns, square and not
Swap == << <<0, 1>>, <<1, 0>> >>
Tall == << <<1, 0>>, <<0, 1>>, <<0, 0>> >>
Wide == << <<1, 0, 0>>, <<0, 1, 0>> >>
OrthogonalityMats == {Swap, Shear, Tall, Wide}

Transpose(m) == [j \in 1..Len(m[1]) |-> [i \in 1..Len(m) |-> m[i][j]]]

\* a @ b
MatMul(a, b) ==
    [i \in 1..Len(a) |->
        [j \in 1..Len(b[1]) |->
            SumTo([k \in 1..Len(b) |-> a[i][k] * b[k][j]], Len(b))]]

\* (mutant) a matrix of ones
Eye_Ones(n) == [i \in 1..n |-> [j \in 1..n |-> 1]]

\* torch.eye(n)
Eye(n) == [i \in 1..n |-> [j \in 1..n |-> IF i = j THEN 1 ELSE 0]]

\* the square of torch.norm(m, p="fro"): the norm is its square root
FroSquared(m) ==
    SumTo([i \in 1..Len(m) |->
              SumTo([j \in 1..Len(m[i]) |-> m[i][j] * m[i][j]], Len(m[i]))],
          Len(m))

MatSub(a, b) ==
    [i \in 1..Len(a) |-> [j \in 1..Len(a[i]) |-> a[i][j] - b[i][j]]]

\* lines 488-506: total_loss is the sum over the selected modules of
\* sqrt(FroSquared(W^T W - I)); the value names each module's radicand
PicoDecoder_get_orthogonality_loss(self, w) ==
    [raised |-> "none", message |-> <<>>,
     value |-> Some([m \in TargetsOf(self) |->
                        LET _gram_matrix == MatMul(Transpose(w[m]), w[m])
                        IN  FroSquared(MatSub(_gram_matrix,
                                              Eye(Len(_gram_matrix))))])]

\* lines 508-523: total_loss is the sum over the selected modules of
\* sqrt(FroSquared(W)); the value names each module's radicand
PicoDecoder_get_frobenius_loss(self, w) ==
    [raised |-> "none", message |-> <<>>,
     value |-> Some([m \in TargetsOf(self) |-> FroSquared(w[m])])]

\* lines 525-534: self.normalization_strategy is looked up on the model,
\* which raises AttributeError when __init__ has not set it
PicoDecoder_get_normalization_loss(self, w) ==
    IF "normalization_strategy" \notin DOMAIN self
    THEN [raised |-> "AttributeError",
          message |-> <<"'PicoDecoder' object has no attribute",
                        "normalization_strategy">>,
          value |-> None]
    ELSE IF self.normalization_strategy = "orthogonality_loss"
    THEN PicoDecoder_get_orthogonality_loss(self, w)
    ELSE IF self.normalization_strategy = "frobenius_loss"
    THEN PicoDecoder_get_frobenius_loss(self, w)
    ELSE [raised |-> "NotImplementedError",
          message |-> <<"Normalization strategy",
                        self.normalization_strategy, "not implemented">>,
          value |-> None]

----------------------------------------------------------------------------
(* spectral_norm and the training sub-batch *)

\* torch.nn.utils.spectral_norm (lines 255-257 and 379-380) registers a
\* forward pre-hook on the module it wraps.  In training mode, the mode a
\* module is constructed in and that neither the model nor the trainer
\* leaves, the hook runs one power iteration in place on the module's
\* weight_u and weight_v buffers each time the module is called.  n counts
\* the iterations run on the buffers of layers[0].attention.v_proj, the
\* first wrapped module a forward call reaches (line 290).
spectral_norm_pre_hook(self, n) ==
    IF self.rank_normalization_strategy = "spectral_weight" THEN n + 1 ELSE n

\* trainer.py lines 445-498 for one sub-batch of token ids: the forward pass
\* on all but the last token, the cross entropy against all but the first,
\* and the regularization term the strategy selects
Trainer_sub_batch(model_config, w, sub_batch) ==
    LET input_ids == SubSeq(sub_batch, 1, Len(sub_batch) - 1)
        labels == SubSeq(sub_batch, 2, Len(sub_batch))
        strategy == model_config.rank_normalization_strategy
        model == PicoDecoder_init(model_config)
        \* lines 470-498, given the outcome of self.model(input_ids)
        Loss(model_output) ==
            IF model_output.raised # "none"
            THEN [raised |-> model_output.raised, cross_entropy |-> None,
                  regularization |-> None]
            ELSE [raised |-> "none",
                  cross_entropy |-> Some(<<model_output.logits, labels>>),
                  regularization |->
                      IF strategy = "orthogonality_loss"
                      THEN PicoDecoder_get_orthogonality_loss(model, w).value
                      ELSE IF strategy = "frobenius_loss"
                      THEN PicoDecoder_get_frobenius_loss(model, w).value
                      ELSE None]
    IN  Loss(PicoDecoder_forward(model_config, input_ids, None, FALSE))

----------------------------------------------------------------------------
(* Trainer.train and Trainer._training_loop (trainer.py) *)

\* what torch.isnan and torch.isinf (line 506) make of a sub-batch's loss
Losses == {"finite", "nan", "inf"}

\* the strategy a training run is configured with
TrainerStrategies == {"none", "orthogonality_loss", "frobenius_loss"}

\* configs["training"], configs["checkpointing"], configs["monitoring"] and
\* configs["model"], as far as train and _training_loop read them
TrainerConfigs ==
    [max_steps : 1..MaxSteps,
     gradient_accumulation_steps : 1..MaxEvery,
     save_every_n_steps : 1..MaxEvery,
     log_every_n_steps : 1..MaxEvery,
     rank_normalization_strategy : TrainerStrategies]

\* The Trainer after __init__ (lines 120-222): initial_batch_step is the
\* step of the checkpoint resumed from, or 0; train_iterator holds
\* n_sub_batches sub-batches.  The loop's local variables and what the run
\* has done so far (checkpoints saved, optimizer, zero_grad and scheduler
\* steps taken, the metrics last logged) are kept beside the fields.
Trainer_init(configs, initial_batch_step, n_sub_batches) ==
    [pc |-> "constructed", configs |-> configs,
     initial_batch_step |-> initial_batch_step,
     train_iterator |-> n_sub_batches, sub_batches |-> n_sub_batches,
     exhausted |-> FALSE,
     batch_step |-> 0, sub_batch_step |-> 0, loss |-> "",
     interval_loss |-> 0, interval_steps |-> 0,
     interval_inf_or_nan_count |-> 0,
     interval_orthogonality_loss |-> None,
     interval_frobenius_loss |-> None,
     final_step |-> 0, raised |-> "none",
     checkpoints |-> <<>>, optimizer_steps |-> 0, zero_grads |-> 0,
     scheduler_steps |-> 0, logged |-> None]

NoTrainer ==
    [Trainer_init([max_steps |-> 1, gradient_accumulation_steps |-> 1,
                   save_every_n_steps |-> 1, log_every_n_steps |-> 1,
                   rank_normalization_strategy |-> "none"], 0, 0)
        EXCEPT !.pc = "none"]

\* save_checkpoint(configs, checkpoint_step, ...): the call is recorded
save_checkpoint(tr, checkpoint_step) ==
    [tr EXCEPT !.checkpoints = Append(@, checkpoint_step)]

\* lines 395-417: the local variables of _training_loop before its loop
Trainer_loop_entry(tr) ==
    LET strategy == tr.configs.rank_normalization_strategy
    IN  [tr EXCEPT
            !.pc = "loop",
            !.batch_step = tr.initial_batch_step,
            !.interval_loss = 0,
            !.interval_steps = 0,
            !.interval_inf_or_nan_count = 0,
            !.interval_orthogonality_loss =
                IF strategy = "orthogonality_loss" THEN Some(0) ELSE None,
            !.interval_frobenius_loss =
                IF strategy = "frobenius_loss" THEN Some(0) ELSE None,
            !.sub_batch_step =
                tr.initial_batch_step
                    * tr.configs.gradient_accumulation_steps]

\* lines 223-304: the initial checkpoint, then the loop is entered or
\* skipped
Trainer_train(tr) ==
    LET saved == save_checkpoint(tr, tr.initial_batch_step)
    IN  IF tr.initial_batch_step < tr.configs.max_steps
        THEN Trainer_loop_entry(saved)
        ELSE [saved EXCEPT !.pc = "after_loop",
                           !.final_step = tr.initial_batch_step]

\* lines 429-521 for the sub-batch the iterator yields, whose loss is
\* `loss`: a finite cross entropy has item 1 and a regularization loss item
\* 1, added to it by lines 479-498
Trainer_accumulate(tr, loss) ==
    LET strategy == tr.configs.rank_normalization_strategy
        orthogonality_loss == 1
        frobenius_loss == 1
        item == IF strategy \in {"orthogonality_loss", "frobenius_loss"}
                THEN 2 ELSE 1
        yielded == [tr EXCEPT !.train_iterator = @ - 1, !.loss = loss,
                              !.pc = "sub_batch"]
    IN  IF loss \in {"nan", "inf"}
        THEN [yielded EXCEPT !.interval_inf_or_nan_count = @ + 1]
        ELSE [yielded EXCEPT
                 !.interval_loss = @ + item,
                 !.interval_steps = @ + 1,
                 !.interval_orthogonality_loss =
                     IF strategy = "orthogonality_loss"
                     THEN Some(@.val + orthogonality_loss) ELSE @,
                 !.interval_frobenius_loss =
                     IF strategy = "frobenius_loss"
                     THEN Some(@.val + frobenius_loss) ELSE @]

\* float("inf") beside the fractions <<numerator, denominator>>
Inf == <<1, 0>>

\* lines 678-750, up to the values handed to fabric.log: a / b on Python
\* numbers raises ZeroDivisionError when b is 0
_log_training_metrics(interval_loss, interval_steps, interval_inf_or_nan_count, batch_step, additional_losses) ==
    LET gathered_interval_steps == interval_steps
        given == { name \in DOMAIN additional_losses :
                      additional_losses[name].present }
    IN  IF given # {} /\ gathered_interval_steps = 0
        THEN [raised |-> "ZeroDivisionError", logged |-> None]
        ELSE [raised |-> "none",
              logged |->
                  Some([step |-> batch_step,
                        avg_loss |->
                            IF gathered_interval_steps > 0
                            THEN <<interval_loss, gathered_interval_steps>>
                            ELSE Inf,
                        inf_or_nan_count |-> interval_inf_or_nan_count,
                        additional |->
                            [name \in given |->
                                <<additional_losses[name].val,
                                  gathered_interval_steps>>]])]

\* (mutant) gradients are accumulated over one sub-batch more
should_accumulate_gradients_Late(tr) ==
    tr.sub_batch_step % tr.configs.gradient_accumulation_steps # 0

\* lines 470-472
should_accumulate_gradients(tr) ==
    (tr.sub_batch_step + 1) % tr.configs.gradient_accumulation_steps # 0

\* line 638
should_save(tr, batch_step) ==
    batch_step % tr.configs.save_every_n_steps = 0

\* lines 523-667 for the sub-batch just accumulated: the iteration ends at
\* the continue of line 525, or logs, steps the optimizer, checkpoints and
\* tests for the end of training; a break is followed by the return of
\* line 670.  The learning dynamics of lines 575-618 and the evaluation of
\* lines 650-664 read the model and write files of their own.
Trainer_step(tr) ==
    LET strategy == tr.configs.rank_normalization_strategy
        \* lines 626-667
        Optimize(t) ==
            LET stepped == [t EXCEPT !.optimizer_steps = @ + 1,
                                     !.zero_grads = @ + 1,
                                     !.scheduler_steps = @ + 1,
                                     !.batch_step = @ + 1]
                saved == IF should_save(stepped, stepped.batch_step)
                         THEN save_checkpoint(stepped, stepped.batch_step)
                         ELSE stepped
            IN  IF saved.batch_step >= saved.configs.max_steps
                THEN [saved EXCEPT !.pc = "after_loop",
                                   !.final_step = saved.batch_step]
                ELSE [saved EXCEPT !.pc = "loop", !.sub_batch_step = @ + 1]
        \* lines 549-568, given the outcome r of _log_training_metrics
        AfterLog(r) ==
            IF r.raised # "none"
            THEN [tr EXCEPT !.pc = "raised", !.raised = r.raised]
            ELSE Optimize(
                    [tr EXCEPT
                        !.logged = r.logged,
                        !.interval_loss = 0,
                        !.interval_steps = 0,
                        !.interval_inf_or_nan_count = 0,
                        !.interval_orthogonality_loss =
                            IF strategy = "orthogonality_loss"
                            THEN Some(0) ELSE @,
                        !.interval_frobenius_loss =
                            IF strategy = "frobenius_loss"
                            THEN Some(0) ELSE @])
    IN  IF should_accumulate_gradients(tr)
        THEN [tr EXCEPT !.pc = "loop", !.sub_batch_step = @ + 1]
        ELSE IF tr.batch_step % tr.configs.log_every_n_steps = 0
        THEN AfterLog(_log_training_metrics(
                         tr.interval_loss, tr.interval_steps,
                         tr.interval_inf_or_nan_count, tr.batch_step,
                         [interval_orthogonality_loss |->
                              IF strategy = "orthogonality_loss"
                              THEN tr.interval_orthogonality_loss
                              ELSE None,
                          interval_frobenius_loss |->
                              IF strategy = "frobenius_loss"
                              THEN tr.interval_frobenius_loss
                              ELSE None]))
        ELSE Optimize(tr)

\* lines 429-431 and 670: the iterator is exhausted, the loop ends and
\* _training_loop returns batch_step
Trainer_exhausted(tr) ==
    [tr EXCEPT !.pc = "after_loop", !.exhausted = TRUE,
               !.final_step = tr.batch_step]

\* (mutant) the final checkpoint is saved when the final step is a multiple
Trainer_finish_Multiple(tr) ==
    [(IF tr.final_step % tr.configs.save_every_n_steps = 0
      THEN save_checkpoint(tr, tr.final_step) ELSE tr)
        EXCEPT !.pc = "returned"]

\* lines 332-377: the final checkpoint, then train returns
Trainer_finish(tr) ==
    [(IF tr.final_step % tr.configs.save_every_n_steps # 0
      THEN save_checkpoint(tr, tr.final_step) ELSE tr)
        EXCEPT !.pc = "returned"]

----------------------------------------------------------------------------
(* The decoder under test and its callers *)

Strategies ==
    {"none", "orthogonality_loss", "frobenius_loss", "spectral_weight",
     "bogus"}

DecoderConfig(strategy) ==
    [d_model |-> 8, n_layers |-> NLayers, vocab_size |-> 2,
     max_seq_len |-> MaxSeqLen, attention_n_heads |-> 2,
     attention_n_kv_heads |-> 1, position_emb_theta |-> 10000,
     rank_normalization_strategy |-> strategy]

\* input_ids of one call: 1..MaxInputLen tokens of the vocabulary
Inputs ==
    UNION { [1..n -> 0..(DecoderConfig("none").vocab_size - 1)] :
               n \in 1..MaxInputLen }

\* A session: the tokens fed so far, and whether every call fed one token
NoSession == [tokens |-> <<>>, one_at_a_time |-> TRUE]

NoCall ==
    [made |-> FALSE, input_ids |-> <<>>, past |-> None, use_cache |-> FALSE,
     prior |-> NoSession,
     result |-> [raised |-> "none", logits |-> <<>>, cache |-> None,
                 mask |-> None]]

NoRopeCall ==
    [made |-> FALSE, start_pos |-> 0, seq_len |-> 0,
     result |-> [raised |-> "none", queries |-> <<>>, keys |-> <<>>]]

NoLossCall ==
    [made |-> FALSE, fn |-> "", raised |-> "none", message |-> <<>>,
     value |-> None]

NoTrainCall ==
    [made |-> FALSE, sub_batch |-> <<>>, raised |-> "none",
     cross_entropy |-> None, regularization |-> None]

NoAttention == [made |-> FALSE, raised |-> "none"]

NoAttentionCall ==
    [made |-> FALSE, device |-> "", input |-> <<>>, mask |-> None,
     past |-> None, use_cache |-> FALSE,
     result |-> AttentionHeadsRaise("none")]

\* No call is in progress: the caller has taken the last call's outcome.
Idle ==
    ~call.made /\ ~rope_call.made /\ ~loss_call.made /\ ~train_call.made

\* The caller runs model(input_ids, past_key_values, use_cache), passing the
\* cache of the running session or None (which starts a new session).
Forward ==
    /\ Idle
    /\ spectral_norm_pre_hook(config, buffers) <= MaxPowerIterations
    /\ \E input_ids \in Inputs, use_cache \in BOOLEAN, with_past \in BOOLEAN :
        LET past == IF with_past THEN past_key_values ELSE None
        IN  call' = [made |-> TRUE, input_ids |-> input_ids,
                     past |-> past, use_cache |-> use_cache,
                     prior |-> IF past.present THEN fed ELSE NoSession,
                     result |-> PicoDecoder_forward(config, input_ids, past,
                                                    use_cache)]
    /\ buffers' = spectral_norm_pre_hook(config, buffers)
    /\ UNCHANGED <<freqs_cis_tensor, pc, rope, nbuilds, config, weights,
                   past_key_values, fed, rope_call, loss_call,
                   train_call, attn, attn_call, trainer>>

\* The caller takes the outcome: it keeps the returned cache as the
\* session's cache when the call returned one, and its old cache otherwise.
Return ==
    /\ call.made
    /\ IF call.result.raised = "none" /\ call.use_cache
       THEN /\ past_key_values' = call.result.cache
            /\ fed' = [tokens |-> call.prior.tokens \o call.input_ids,
                        one_at_a_time |-> /\ call.prior.one_at_a_time
                                          /\ Len(call.input_ids) = 1]
       ELSE UNCHANGED <<past_key_values, fed>>
    /\ call' = NoCall
    /\ UNCHANGED <<freqs_cis_tensor, pc, rope, nbuilds, config, weights,
                   rope_call, loss_call,
                   buffers, train_call, attn, attn_call, trainer>>

\* A direct call of one layer's rope(queries, keys, start_pos)
RoPEForward ==
    /\ Idle
    /\ \E start_pos \in 0..MaxStartPos, seq_len \in 1..MaxInputLen :
        LET queries == [i \in 1..seq_len |-> <<"q", i>>]
            keys == [i \in 1..seq_len |-> <<"k", i>>]
            head_dim == config.d_model \div config.attention_n_heads
        IN  rope_call' =
                [made |-> TRUE, start_pos |-> start_pos, seq_len |-> seq_len,
                 result |-> RoPE_forward([_freqs_cis |-> freqs_cis_tensor],
                                         queries, keys, head_dim, start_pos)]
    /\ UNCHANGED <<freqs_cis_tensor, pc, rope, nbuilds, config, weights,
                   past_key_values, fed, call, loss_call,
                   buffers, train_call, attn, attn_call, trainer>>

RoPEReturn ==
    /\ rope_call.made
    /\ rope_call' = NoRopeCall
    /\ UNCHANGED <<freqs_cis_tensor, pc, rope, nbuilds, config, weights,
                   past_key_values, fed, call, loss_call,
                   buffers, train_call, attn, attn_call, trainer>>

\* The decoder has been constructed (single-threaded) from its config: the
\* frequency table is the one its first RoPE built.
InitDecoder(strategies) ==
    /\ config \in { DecoderConfig(s) : s \in strategies }
    /\ freqs_cis_tensor =
          Some(Tensor(1, _setup_freqs_cis(
                             config.max_seq_len, config.position_emb_theta,
                             config.d_model \div config.attention_n_heads)))
    /\ nbuilds = 1
    /\ pc = [t \in Threads |-> "done"]
    /\ rope = [t \in Threads |-> NoRoPE]
    /\ weights \in [TargetsOf(PicoDecoder_init(config)) -> {Identity}]
    /\ past_key_values = None
    /\ fed = NoSession
    /\ call = NoCall
    /\ rope_call = NoRopeCall
    /\ loss_call = NoLossCall
    /\ buffers = 0
    /\ train_call = NoTrainCall
    /\ attn = NoAttention
    /\ attn_call = NoAttentionCall
    /\ trainer = NoTrainer

Init == InitDecoder({"none"})

Next == Forward \/ Return \/ RoPEForward \/ RoPEReturn

Spec == Init /\ [][Next]_vars

----------------------------------------------------------------------------
(* The regularization losses, with the optimizer changing the weights *)

\* model.get_normalization_loss()
GetNormalizationLoss ==
    /\ Idle
    /\ loss_call' =
          [made |-> TRUE, fn |-> "get_normalization_loss"] @@
          PicoDecoder_get_normalization_loss(PicoDecoder_init(config), weights)
    /\ UNCHANGED <<freqs_cis_tensor, pc, rope, nbuilds, config, weights,
                   past_key_values, fed, call, rope_call,
                   buffers, train_call, attn, attn_call, trainer>>

LossReturn ==
    /\ loss_call.made
    /\ loss_call' = NoLossCall
    /\ UNCHANGED <<freqs_cis_tensor, pc, rope, nbuilds, config, weights,
                   past_key_values, fed, call, rope_call,
                   buffers, train_call, attn, attn_call, trainer>>

\* model.get_orthogonality_loss(), called directly
GetOrthogonalityLoss ==
    /\ Idle
    /\ loss_call' =
          [made |-> TRUE, fn |-> "get_orthogonality_loss"] @@
          PicoDecoder_get_orthogonality_loss(PicoDecoder_init(config), weights)
    /\ UNCHANGED <<freqs_cis_tensor, pc, rope, nbuilds, config, weights,
                   past_key_values, fed, call, rope_call,
                   buffers, train_call, attn, attn_call, trainer>>

\* model.get_frobenius_loss(), called directly
GetFrobeniusLoss ==
    /\ Idle
    /\ loss_call' =
          [made |-> TRUE, fn |-> "get_frobenius_loss"] @@
          PicoDecoder_get_frobenius_loss(PicoDecoder_init(config), weights)
    /\ UNCHANGED <<freqs_cis_tensor, pc, rope, nbuilds, config, weights,
                   past_key_values, fed, call, rope_call,
                   buffers, train_call, attn, attn_call, trainer>>

\* the sub-batches the data iterator yields: MaxInputLen token ids each
SubBatches == [1..MaxInputLen -> 0..(DecoderConfig("none").vocab_size - 1)]

\* trainer.py lines 445-498: the training loop runs one sub-batch through
\* the model and computes its loss; the forward pass runs the pre-hooks
TrainingSubBatch ==
    /\ Idle
    /\ spectral_norm_pre_hook(config, buffers) <= MaxPowerIterations
    /\ \E sub_batch \in SubBatches :
          train_call' = [made |-> TRUE, sub_batch |-> sub_batch] @@
                        Trainer_sub_batch(config, weights, sub_batch)
    /\ buffers' = spectral_norm_pre_hook(config, buffers)
    /\ UNCHANGED <<freqs_cis_tensor, pc, rope, nbuilds, config, weights,
                   past_key_values, fed, call, rope_call, loss_call,
                   attn, attn_call, trainer>>

\* the loop goes on to the next sub-batch
TrainReturn ==
    /\ train_call.made
    /\ train_call' = NoTrainCall
    /\ UNCHANGED <<freqs_cis_tensor, pc, rope, nbuilds, config, weights,
                   past_key_values, fed, call, rope_call, loss_call,
                   buffers, attn, attn_call, trainer>>

\* The external optimizer replaces a target matrix
OptimizerStep ==
    /\ Idle
    /\ \E m \in DOMAIN weights, w \in Mats :
          weights' = [weights EXCEPT ![m] = w]
    /\ UNCHANGED <<freqs_cis_tensor, pc, rope, nbuilds, config,
                   past_key_values, fed, call, rope_call, loss_call,
                   buffers, train_call, attn, attn_call, trainer>>

InitLoss == InitDecoder(Strategies)

NextLoss ==
    \/ GetNormalizationLoss
    \/ GetOrthogonalityLoss
    \/ GetFrobeniusLoss
    \/ LossReturn
    \/ TrainingSubBatch
    \/ TrainReturn
    \/ OptimizerStep

SpecLoss == InitLoss /\ [][NextLoss]_vars

----------------------------------------------------------------------------
(* get_orthogonality_loss on a decoder with any weights *)

InitOrthogonality ==
    /\ config = DecoderConfig("orthogonality_loss")
    /\ freqs_cis_tensor =
          Some(Tensor(1, _setup_freqs_cis(
                             config.max_seq_len, config.position_emb_theta,
                             config.d_model \div config.attention_n_heads)))
    /\ nbuilds = 1
    /\ pc = [t \in Threads |-> "done"]
    /\ rope = [t \in Threads |-> NoRoPE]
    /\ weights \in [TargetsOf(PicoDecoder_init(config)) -> OrthogonalityMats]
    /\ past_key_values = None
    /\ fed = NoSession
    /\ call = NoCall
    /\ rope_call = NoRopeCall
    /\ loss_call = NoLossCall
    /\ buffers = 0
    /\ train_call = NoTrainCall
    /\ attn = NoAttention
    /\ attn_call = NoAttentionCall
    /\ trainer = NoTrainer

NextOrthogonality == GetOrthogonalityLoss \/ LossReturn

SpecOrthogonality == InitOrthogonality /\ [][NextOrthogonality]_vars

----------------------------------------------------------------------------
(* Concurrent construction of RoPE instances in a fresh process *)

InitRoPE ==
    /\ freqs_cis_tensor = None
    /\ nbuilds = 0
    /\ pc = [t \in Threads |-> "new"]
    /\ rope = [t \in Threads |-> NoRoPE]
    /\ config = DecoderConfig("none")
    /\ weights = <<>>
    /\ past_key_values = None
    /\ fed = NoSession
    /\ call = NoCall
    /\ rope_call = NoRopeCall
    /\ loss_call = NoLossCall
    /\ buffers = 0
    /\ train_call = NoTrainCall
    /\ attn = NoAttention
    /\ attn_call = NoAttentionCall
    /\ trainer = NoTrainer

NextRoPE ==
    \E t \in Threads :
        \/ RoPE_init_begin(t)
        \/ RoPE_init_check(t)
        \/ RoPE_init_build(t)
        \/ RoPE_init_register(t)

SpecRoPE == InitRoPE /\ [][NextRoPE]_vars

----------------------------------------------------------------------------
(* One Attention module, constructed in a fresh process and called *)

\* the configurations the module is constructed from
AttentionConfigs ==
    { [d_model |-> d, attention_n_heads |-> h, attention_n_kv_heads |-> k,
       max_seq_len |-> MaxSeqLen, position_emb_theta |-> 10000,
       rank_normalization_strategy |-> "none"] :
         d \in {6, 8, 10}, h \in 0..MaxHeads, k \in 0..MaxHeads }

Devices == {"cpu", "mps"}

\* a prior cache tensor of P positions whose contents another call computed
PastTensor(name, P, heads, head_dim) ==
    HeadTensor(heads, head_dim,
               [j \in 1..P |-> [g \in 1..heads |-> <<name, j, g>>]])

\* how far the kv-head count and the head dimension of the prior keys (k)
\* and values (v) a caller passes are off the module's own
CacheShapes ==
    { [k_heads |-> 0, k_dim |-> 0, v_heads |-> 0, v_dim |-> 0],
      [k_heads |-> 1, k_dim |-> 0, v_heads |-> 1, v_dim |-> 0],
      [k_heads |-> 0, k_dim |-> 2, v_heads |-> 0, v_dim |-> 2],
      [k_heads |-> 0, k_dim |-> 0, v_heads |-> 1, v_dim |-> 0],
      [k_heads |-> 0, k_dim |-> 0, v_heads |-> 0, v_dim |-> 2] }

\* the past_key_values a caller passes to a module: None, or P positions
PastKeyValues(self) ==
    {None} \cup
    { Some(<<PastTensor("past_keys", P, self.n_kv_heads + c.k_heads,
                        self.head_dim + c.k_dim),
             PastTensor("past_values", P, self.n_kv_heads + c.v_heads,
                        self.head_dim + c.v_dim)>>) :
         P \in 1..2, c \in CacheShapes }

\* Attention(config), lines 231-262; line 262 constructs the RoPE, which
\* builds the frequency table of this process
ConstructAttention ==
    /\ ~attn.made
    /\ attn' = [made |-> TRUE] @@ Attention_init(config)
    /\ IF attn'.raised = "none"
       THEN /\ nbuilds' = nbuilds + 1
            /\ freqs_cis_tensor' =
                  Some(Tensor(nbuilds + 1,
                              _setup_freqs_cis(config.max_seq_len,
                                               attn'.rope.theta,
                                               attn'.rope.dim)))
       ELSE UNCHANGED <<nbuilds, freqs_cis_tensor>>
    /\ UNCHANGED <<pc, rope, config, weights, past_key_values, fed, call,
                   rope_call, loss_call, buffers, train_call, attn_call,
                   trainer>>

\* attention(input, mask, past_key_values, use_cache) on seq_len input
\* vectors; the mask, when one is passed, is the causal mask over the
\* cached and the new positions
AttentionForward ==
    /\ attn.made /\ attn.raised = "none"
    /\ ~attn_call.made
    /\ \E device \in Devices, seq_len \in 1..(MaxInputLen + 1),
          past \in PastKeyValues(attn), use_cache \in BOOLEAN,
          with_mask \in BOOLEAN :
        LET P == IF past.present THEN Len(past.val[1].at) ELSE 0
            input == [i \in 1..seq_len |-> <<"input", P + i>>]
            mask == IF with_mask
                    THEN Some(HStack(Zeros(seq_len, P),
                                     Triu(Full(seq_len, NegInf), 1)))
                    ELSE None
        IN  attn_call' =
                [made |-> TRUE, device |-> device, input |-> input,
                 mask |-> mask, past |-> past, use_cache |-> use_cache,
                 result |-> Attention_forward_heads(attn, device, input,
                                                    mask, past, use_cache)]
    /\ UNCHANGED <<freqs_cis_tensor, pc, rope, nbuilds, config, weights,
                   past_key_values, fed, call, rope_call, loss_call,
                   buffers, train_call, attn, trainer>>

AttentionReturn ==
    /\ attn_call.made
    /\ attn_call' = NoAttentionCall
    /\ UNCHANGED <<freqs_cis_tensor, pc, rope, nbuilds, config, weights,
                   past_key_values, fed, call, rope_call, loss_call,
                   buffers, train_call, attn, trainer>>

InitAttention ==
    /\ config \in AttentionConfigs
    /\ freqs_cis_tensor = None
    /\ nbuilds = 0
    /\ pc = [t \in Threads |-> "done"]
    /\ rope = [t \in Threads |-> NoRoPE]
    /\ weights = <<>>
    /\ past_key_values = None
    /\ fed = NoSession
    /\ call = NoCall
    /\ rope_call = NoRopeCall
    /\ loss_call = NoLossCall
    /\ buffers = 0
    /\ train_call = NoTrainCall
    /\ attn = NoAttention
    /\ attn_call = NoAttentionCall
    /\ trainer = NoTrainer

NextAttention == ConstructAttention \/ AttentionForward \/ AttentionReturn

SpecAttention == InitAttention /\ [][NextAttention]_vars

----------------------------------------------------------------------------
(* A training run *)

\* trainer.train()
Train ==
    /\ trainer.pc = "constructed"
    /\ trainer' = Trainer_train(trainer)
    /\ UNCHANGED <<freqs_cis_tensor, pc, rope, nbuilds, config, weights,
                   past_key_values, fed, call, rope_call, loss_call,
                   buffers, train_call, attn, attn_call>>

\* the loop takes the next sub-batch, runs the model on it and accumulates
\* its loss
SubBatch ==
    /\ trainer.pc = "loop"
    /\ trainer.train_iterator > 0
    /\ \E loss \in Losses : trainer' = Trainer_accumulate(trainer, loss)
    /\ UNCHANGED <<freqs_cis_tensor, pc, rope, nbuilds, config, weights,
                   past_key_values, fed, call, rope_call, loss_call,
                   buffers, train_call, attn, attn_call>>

\* the rest of the iteration
Step ==
    /\ trainer.pc = "sub_batch"
    /\ trainer' = Trainer_step(trainer)
    /\ UNCHANGED <<freqs_cis_tensor, pc, rope, nbuilds, config, weights,
                   past_key_values, fed, call, rope_call, loss_call,
                   buffers, train_call, attn, attn_call>>

\* the loop asks an exhausted iterator for the next sub-batch
IteratorExhausted ==
    /\ trainer.pc = "loop"
    /\ trainer.train_iterator = 0
    /\ trainer' = Trainer_exhausted(trainer)
    /\ UNCHANGED <<freqs_cis_tensor, pc, rope, nbuilds, config, weights,
                   past_key_values, fed, call, rope_call, loss_call,
                   buffers, train_call, attn, attn_call>>

\* train goes on after _training_loop returned or was skipped
TrainFinish ==
    /\ trainer.pc = "after_loop"
    /\ trainer' = Trainer_finish(trainer)
    /\ UNCHANGED <<freqs_cis_tensor, pc, rope, nbuilds, config, weights,
                   past_key_values, fed, call, rope_call, loss_call,
                   buffers, train_call, attn, attn_call>>

InitTrainer ==
    /\ trainer \in { Trainer_init(configs, initial_batch_step, n) :
                        configs \in TrainerConfigs,
                        initial_batch_step \in 0..MaxSteps,
                        n \in 0..MaxSubBatches }
    /\ config = DecoderConfig(trainer.configs.rank_normalization_strategy)
    /\ freqs_cis_tensor =
          Some(Tensor(1, _setup_freqs_cis(
                             config.max_seq_len, config.position_emb_theta,
                             config.d_model \div config.attention_n_heads)))
    /\ nbuilds = 1
    /\ pc = [t \in Threads |-> "done"]
    /\ rope = [t \in Threads |-> NoRoPE]
    /\ weights = [m \in TargetsOf(PicoDecoder_init(config)) |-> Identity]
    /\ past_key_values = None
    /\ fed = NoSession
    /\ call = NoCall
    /\ rope_call = NoRopeCall
    /\ loss_call = NoLossCall
    /\ buffers = 0
    /\ train_call = NoTrainCall
    /\ attn = NoAttention
    /\ attn_call = NoAttentionCall

NextTrainer ==
    Train \/ SubBatch \/ Step \/ IteratorExhausted \/ TrainFinish

SpecTrainer == InitTrainer /\ [][NextTrainer]_vars

----------------------------------------------------------------------------
(* Properties *)

\* the sequence length of the keys (k = 1) or values (k = 2) that a cache
\* holds for layer l; 0 for no cache
CacheLen(cache, l, k) ==
    IF cache.present THEN Len(cache.val[l][k].val) ELSE 0

TableLen == Len(freqs_cis_tensor.val.rows)

\* C1: cache equivalence.  In a session fed one token per call with
\* use_cache=True (None as the first call's cache, then each call's returned
\* cache), with N <= max_seq_len tokens fed in all, every call completes and
\* its logits equal the logits at the last position of one full forward pass
\* over the N tokens.
C1_CacheEquivalence ==
    (/\ call.made
     /\ call.use_cache
     /\ Len(call.input_ids) = 1
     /\ call.prior.one_at_a_time
     /\ Len(call.prior.tokens) + 1 <= config.max_seq_len)
    => LET tokens == call.prior.tokens \o call.input_ids
           full == PicoDecoder_forward(config, tokens, None, FALSE)
       IN  /\ call.result.raised = "none"
           /\ full.raised = "none"
           /\ call.result.logits = <<full.logits[Len(tokens)]>>

\* C2: the mask is optional.  A forward call on one token (within the table)
\* builds no mask, returns without raising, and its logits have sequence
\* length 1.
C2_MaskOptional ==
    (/\ call.made
     /\ Len(call.input_ids) = 1
     /\ CacheLen(call.past, 1, 1) + 1 <= TableLen)
    => /\ ~call.result.mask.present
       /\ call.result.raised = "none"
       /\ Len(call.result.logits) = 1

\* C3: the frequency table is keyed by (theta, rotation dimension, max
\* length).  Every constructed RoPE instance holds the table built from its
\* own (position_emb_theta, d_model // attention_n_heads, max_seq_len).
C3_TableKeyedByConfig ==
    \A t \in Threads :
        pc[t] = "done" =>
            LET own == _setup_freqs_cis(rope[t].max_seq_len, rope[t].theta,
                                        rope[t].dim)
            IN  /\ rope[t]._freqs_cis.present
                /\ rope[t]._freqs_cis.val.shape = own.shape
                /\ rope[t]._freqs_cis.val.rows = own.rows

\* C4: first construction is mutually exclusive.  However the constructions
\* interleave, the table is built at most once, and the constructed
\* instances all reference one table object.
C4_BuiltOnce ==
    /\ nbuilds <= 1
    /\ \A t1, t2 \in Threads :
          (pc[t1] = "done" /\ pc[t2] = "done") =>
              rope[t1]._freqs_cis.val.id = rope[t2]._freqs_cis.val.id

\* C5: positions beyond the table are an error.  A RoPE.forward call with
\* start_pos + seq_len greater than the table length raises and returns no
\* rotated queries or keys.
C5_BeyondTableRaises ==
    (rope_call.made /\ rope_call.start_pos + rope_call.seq_len > TableLen)
    => /\ rope_call.result.raised # "none"
       /\ rope_call.result.queries = <<>>
       /\ rope_call.result.keys = <<>>

\* a call that starts inside the table and ends beyond it was made
C5_Witness ==
    /\ rope_call.made
    /\ rope_call.start_pos < TableLen
    /\ rope_call.start_pos + rope_call.seq_len > TableLen
    /\ rope_call.result.raised = "AssertionError"

\* C6: within a session (each call receives the cache the previous call
\* returned), the sequence length of every layer's keys and values never
\* decreases from one call to the next.
C6_CacheMonotone ==
    [][(call.made /\ call.past.present) =>
          \A l \in 1..config.n_layers : \A k \in 1..2 :
              CacheLen(past_key_values', l, k)
                  >= CacheLen(past_key_values, l, k)]_vars

\* a call that received the session's cache has returned a new cache
C6_Witness ==
    /\ call.made
    /\ call.past.present
    /\ call.use_cache
    /\ call.result.raised = "none"
    /\ CacheLen(call.result.cache, 1, 1) > CacheLen(call.past, 1, 1)

\* C7: for seq_len > 1 and a cached prefix of P tokens (0 without a cache)
\* the mask has seq_len rows of P + seq_len entries; counting from 0, entry
\* (i, j) is 0 when j <= P + i and -inf when j > P + i.
C7_MaskShape ==
    (call.made /\ Len(call.input_ids) > 1)
    => LET seq_len == Len(call.input_ids)
           P == Len(call.prior.tokens)
           mask == call.result.mask
       IN  /\ mask.present
           /\ Len(mask.val) = seq_len
           /\ \A i \in 1..seq_len :
                 /\ Len(mask.val[i]) = P + seq_len
                 /\ \A j \in 1..(P + seq_len) :
                       mask.val[i][j] = IF j - 1 <= P + (i - 1) THEN 0
                                        ELSE NegInf

\* a mask was built over a cached prefix
C7_Witness ==
    /\ call.made
    /\ call.past.present
    /\ Len(call.prior.tokens) > 0
    /\ Len(call.input_ids) > 1
    /\ call.result.raised = "none"

\* C8: causal masking.  Without a cache, two inputs of equal length that
\* agree on positions 0..t get the same logits at position t.
C8_Causal ==
    (call.made /\ ~call.past.present /\ call.result.raised = "none")
    => \A other \in Inputs :
          Len(other) = Len(call.input_ids) =>
              LET r == PicoDecoder_forward(config, other, None,
                                           call.use_cache)
              IN  /\ r.raised = "none"
                  /\ \A t \in 1..Len(other) :
                        (\A k \in 1..t : other[k] = call.input_ids[k])
                        => r.logits[t] = call.result.logits[t]

\* a call without a cache on an input of three tokens has returned
C8_Witness ==
    /\ call.made
    /\ ~call.past.present
    /\ Len(call.input_ids) = 3
    /\ call.result.raised = "none"

\* the layer whose k_proj produced the key, and the layer that produced the
\* hidden state the key was projected from (0: the embedding)
KeyLayer(key) == key[3][2]
KeySourceLayer(key) ==
    LET x == key[3][3][3] IN IF x[1] = "embedding_proj" THEN 0 ELSE x[2]

\* C9: a forward call that returns ran the layers in index order, each on
\* its own prior cache entry.  With use_cache=True the cache is a tuple of
\* n_layers entries; entry l starts with the prior entry l that was passed
\* and continues with the keys and values layer l computed from the output
\* of layer l - 1.  With use_cache=False the cache is None.
C9_LayerThreading ==
    (call.made /\ call.result.raised = "none")
    => IF call.use_cache
       THEN LET cache == call.result.cache
                P == CacheLen(call.past, 1, 1)
                n == Len(call.input_ids)
            IN  /\ cache.present
                /\ Len(cache.val) = config.n_layers
                /\ \A l \in 1..config.n_layers : \A k \in 1..2 :
                      /\ cache.val[l][k].present
                      /\ Len(cache.val[l][k].val) = P + n
                      /\ call.past.present =>
                            SubSeq(cache.val[l][k].val, 1, P)
                                = call.past.val[l][k].val
                /\ \A l \in 1..config.n_layers : \A j \in (P + 1)..(P + n) :
                      /\ KeyLayer(cache.val[l][1].val[j]) = l
                      /\ KeySourceLayer(cache.val[l][1].val[j]) = l - 1
                      /\ cache.val[l][2].val[j][1] = "v_proj"
                      /\ cache.val[l][2].val[j][2] = l
       ELSE ~call.result.cache.present

\* a call that was passed a prior cache has returned a cache
C9_Witness ==
    /\ call.made
    /\ call.past.present
    /\ call.use_cache
    /\ call.result.raised = "none"
    /\ Len(call.result.cache.val) = config.n_layers
    /\ config.n_layers >= 2

\* C10: get_normalization_loss on a model configured with an unknown
\* strategy raises the not-implemented error, whose message names the
\* strategy, and returns no value.
C10_UnknownStrategyRaises ==
    (/\ loss_call.made
     /\ config.rank_normalization_strategy \notin
           {"none", "orthogonality_loss", "frobenius_loss",
            "spectral_weight"})
    => /\ loss_call.raised = "NotImplementedError"
       /\ \E i \in 1..Len(loss_call.message) :
             loss_call.message[i] = config.rank_normalization_strategy
       /\ ~loss_call.value.present

\* the values of rank_normalization_strategy the program recognises
\* (model_config.py lines 35-36)
RecognisedStrategies ==
    {"none", "orthogonality_loss", "frobenius_loss", "spectral_weight"}

\* C11: get_normalization_loss dispatches on the configured strategy.  On a
\* model configured with "orthogonality_loss" it returns what
\* get_orthogonality_loss returns and on one configured with
\* "frobenius_loss" what get_frobenius_loss returns, a value in both cases.
C11_Dispatch ==
    (loss_call.made /\ loss_call.fn = "get_normalization_loss")
    => LET self == PicoDecoder_init(config)
           strategy == config.rank_normalization_strategy
       IN  /\ strategy = "orthogonality_loss" =>
                 /\ loss_call.raised = "none"
                 /\ loss_call.value.present
                 /\ loss_call.value =
                       PicoDecoder_get_orthogonality_loss(self, weights).value
           /\ strategy = "frobenius_loss" =>
                 /\ loss_call.raised = "none"
                 /\ loss_call.value.present
                 /\ loss_call.value =
                       PicoDecoder_get_frobenius_loss(self, weights).value

\* C12: an unknown strategy is fatal at construction or at first use.  A
\* model constructed with a strategy that is none of the recognised values
\* does not get through a training sub-batch (forward pass and loss): the
\* sub-batch raises.
C12_UnknownStrategyFatal ==
    (/\ train_call.made
     /\ config.rank_normalization_strategy \notin RecognisedStrategies)
    => train_call.raised # "none"

\* attention_n_heads is a positive integer multiple of attention_n_kv_heads
ValidHeadRatio(cfg) ==
    /\ cfg.attention_n_heads > 0
    /\ cfg.attention_n_kv_heads > 0
    /\ cfg.attention_n_heads % cfg.attention_n_kv_heads = 0

\* C13: an invalid head/kv-head ratio is fatal at construction or first use.
\* When attention_n_heads is not a positive integer multiple of
\* attention_n_kv_heads, the construction of the Attention raises or every
\* forward call on it raises; in every Attention that completes a forward
\* call n_rep is a positive integer with n_rep * n_kv_heads = n_heads.
C13_HeadRatio ==
    /\ (attn.made /\ ~ValidHeadRatio(config))
       => \/ attn.raised # "none"
          \/ attn_call.made => attn_call.result.raised # "none"
    /\ (attn_call.made /\ attn_call.result.raised = "none")
       => /\ attn.n_rep >= 1
          /\ attn.n_rep * attn.n_kv_heads = attn.n_heads

\* a call with a mask on a module of one query head and two kv heads, whose
\* head dimension is even, raised at the output projection
C13_Witness ==
    /\ attn_call.made
    /\ attn.n_heads = 1 /\ attn.n_kv_heads = 2 /\ attn.head_dim % 2 = 0
    /\ attn_call.mask.present
    /\ ~attn_call.past.present
    /\ attn_call.result.raised = "RuntimeError"

\* C14: d_model / attention_n_heads must be even.  A configuration in which
\* d_model / attention_n_heads is not an even integer (d_model not divisible
\* by attention_n_heads included) is rejected: the construction raises or
\* every forward call raises.
C14_EvenHeadDim ==
    (/\ attn.made
     /\ ~(/\ config.attention_n_heads > 0
          /\ config.d_model % config.attention_n_heads = 0
          /\ (config.d_model \div config.attention_n_heads) % 2 = 0))
    => \/ attn.raised # "none"
       \/ attn_call.made => attn_call.result.raised # "none"

\* the prior cache passed has a kv-head count or a head dimension that is
\* not the module's
MalformedPast(self, past) ==
    /\ past.present
    /\ \E k \in 1..2 :
          \/ past.val[k].heads # self.n_kv_heads
          \/ past.val[k].head_dim # self.head_dim

\* C15: a malformed prior cache is fatal for the call.  Attention.forward
\* given a prior cache entry whose kv-head count or head dimension differs
\* from the layer's raises and returns neither an output nor a cache entry.
C15_MalformedCacheRaises ==
    (attn_call.made /\ MalformedPast(attn, attn_call.past))
    => /\ attn_call.result.raised # "none"
       /\ attn_call.result.output = <<>>
       /\ attn_call.result.cache = <<None, None>>

\* a call within the table, with a mask, on a module with a valid head
\* ratio and an even head dimension, whose prior keys are well formed and
\* whose prior values are not, raised at the concatenation
C15_Witness ==
    /\ attn_call.made
    /\ ValidHeadRatio(config) /\ attn.head_dim % 2 = 0
    /\ attn_call.mask.present
    /\ attn_call.past.present
    /\ attn_call.past.val[1].heads = attn.n_kv_heads
    /\ attn_call.past.val[1].head_dim = attn.head_dim
    /\ attn_call.past.val[2].heads # attn.n_kv_heads
    /\ Len(attn_call.past.val[1].at) + Len(attn_call.input) <= TableLen
    /\ attn_call.result.raised = "RuntimeError"

\* C16: forward is read-only with respect to model state.  The forward pass
\* of a training sub-batch, under every configured strategy, leaves every
\* weight matrix, every module buffer and the shared frequency table as
\* they were.
C16_ForwardReadOnly ==
    [][(~train_call.made /\ train_call'.made)
          => /\ weights' = weights
             /\ buffers' = buffers
             /\ freqs_cis_tensor' = freqs_cis_tensor]_vars

\* C17: get_orthogonality_loss and get_frobenius_loss each sum over exactly
\* the value projection, the output projection and the second feed-forward
\* projection of every layer: 3 x n_layers matrices, each once, no other.
C17_ExactTargets ==
    (/\ loss_call.made
     /\ loss_call.fn \in {"get_orthogonality_loss", "get_frobenius_loss"})
    => /\ loss_call.raised = "none"
       /\ loss_call.value.present
       /\ DOMAIN loss_call.value.val =
             { [layer |-> l, path |-> q] :
                  l \in 1..config.n_layers,
                  q \in { <<"attention", "v_proj">>,
                          <<"attention", "o_proj">>, <<"swiglu", "w_2">> } }
       /\ Cardinality(DOMAIN loss_call.value.val) = 3 * config.n_layers

\* get_orthogonality_loss has returned the terms of a model of two or more
\* layers, one of whose target matrices the optimizer has changed
C17_Witness ==
    /\ loss_call.made
    /\ loss_call.fn = "get_orthogonality_loss"
    /\ config.n_layers >= 2
    /\ loss_call.value.present
    /\ \E m \in DOMAIN weights : weights[m] # Identity

\* C18: the logits PicoDecoder.forward returns have 32-bit floating dtype
\* whatever dtype the embeddings, hidden states and projections use.
C18_LogitsFloat32 ==
    (call.made /\ call.result.raised = "none")
    => \A i \in 1..Len(call.result.logits) : \A d \in DTypes :
          dtype(call.result.logits[i], d) = "torch.float32"

\* a call on two tokens over a cached prefix has returned logits
C18_Witness ==
    /\ call.made
    /\ call.past.present
    /\ call.result.raised = "none"
    /\ Len(call.result.logits) = 2
    /\ \E d \in DTypes : dtype(call.result.logits[1][2], d) # "torch.float32"

\* the head whose projection produced a query, key or value vector: a new
\* vector is <<"rope", row, <<proj, head, input>>>> or <<"v_proj", head,
\* input>>, a cached one <<name, position, head>>
HeadOf(vector) ==
    IF vector[1] = "rope" THEN vector[3][2]
    ELSE IF vector[1] = "v_proj" THEN vector[2]
    ELSE vector[3]

\* in the attention output of a call, head h (counted from 1) is computed
\* from query head h and from the keys and values of the kv head that serves
\* it when each kv head serves n consecutive query heads, at the positions
\* the mask lets position i attend to
HeadsPaired(c, n) ==
    LET a == c.result.attn_output
        KV(h) == ((h - 1) \div n) + 1
    IN  \A i \in 1..Len(a.at) : \A h \in 1..a.heads :
           /\ a.at[i][h][1] = "sdpa"
           /\ HeadOf(a.at[i][h][2]) = h
           /\ { e[1] : e \in a.at[i][h][3] }
                 = { j \in 1..Len(c.result.keys.at) : c.mask.val[i][j] = 0 }
           /\ \A e \in a.at[i][h][3] :
                 /\ e[2] = c.result.keys.at[e[1]][KV(h)]
                 /\ e[3] = c.result.values.at[e[1]][KV(h)]
                 /\ HeadOf(e[2]) = KV(h)
                 /\ HeadOf(e[3]) = KV(h)

\* C19: grouped-query attention.  When n_heads > n_kv_heads, in every call
\* that completes query head h attends to kv head h div n_rep (heads counted
\* from 0), each kv head serving n_rep consecutive query heads; the output is
\* the same on the native grouped path and on the explicit repeat path, and
\* has shape [seq_len, d_model].
C19_GroupedQuery ==
    (/\ attn_call.made
     /\ attn_call.result.raised = "none"
     /\ attn.n_heads > attn.n_kv_heads)
    => LET KV(h) == ((h - 1) \div attn.n_rep) + 1
           other == CHOOSE d \in Devices : d # attn_call.device
           there == Attention_forward_heads(attn, other, attn_call.input,
                                            attn_call.mask, attn_call.past,
                                            attn_call.use_cache)
       IN  /\ attn_call.result.attn_output.heads = attn.n_heads
           /\ HeadsPaired(attn_call, attn.n_rep)
           /\ \A g \in 1..attn.n_kv_heads :
                 Cardinality({ h \in 1..attn.n_heads : KV(h) = g })
                    = attn.n_rep
           /\ attn_call.result.path =
                 IF attn_call.device = "mps" THEN "repeat" ELSE "grouped"
           /\ there.raised = "none"
           /\ there.path # attn_call.result.path
           /\ there.output = attn_call.result.output
           /\ there.cache = attn_call.result.cache
           /\ attn_call.result.shape
                 = <<Len(attn_call.input), config.d_model>>

\* the scenario d_model = 8, 2 heads, 1 kv head, 4 positions has completed
\* on the repeat path
C19_Witness ==
    /\ attn_call.made
    /\ config.d_model = 8
    /\ attn.n_heads = 2 /\ attn.n_kv_heads = 1 /\ attn.n_rep = 2
    /\ Len(attn_call.input) = 4
    /\ attn_call.result.raised = "none"
    /\ attn_call.result.path = "repeat"
    /\ attn_call.result.shape = <<4, 8>>

\* plain multi-head attention: head h of the output is computed from head h
\* of the queries, keys and values
MultiHeadAttention(queries, keys, values, attn_mask) ==
    [i \in 1..Len(queries.at) |->
        [h \in 1..queries.heads |->
            <<"sdpa", queries.at[i][h],
              { <<j, keys.at[j][h], values.at[j][h]>> :
                   j \in { jj \in 1..Len(keys.at) : attn_mask[i][jj] = 0 } }>>]]

\* C20: when attention_n_heads = attention_n_kv_heads (n_rep = 1) a call
\* takes neither the grouped nor the repeat path, and its output is that of
\* plain multi-head attention in which query head h uses kv head h.
C20_PlainWhenEqual ==
    (/\ attn_call.made
     /\ attn_call.result.raised = "none"
     /\ attn.n_heads = attn.n_kv_heads)
    => LET r == attn_call.result
       IN  /\ attn.n_rep = 1
           /\ r.path = "plain"
           /\ r.attn_output.heads = attn.n_heads
           /\ r.attn_output.at =
                 MultiHeadAttention(r.queries, r.keys, r.values,
                                    attn_call.mask.val)
           /\ r.output = O_proj(1, MultiHeadAttention(r.queries, r.keys,
                                                      r.values,
                                                      attn_call.mask.val))
           /\ HeadsPaired(attn_call, 1)

\* a call on a module of two heads and two kv heads, over a cached prefix,
\* has completed
C20_Witness ==
    /\ attn_call.made
    /\ attn.n_heads = 2 /\ attn.n_kv_heads = 2
    /\ attn_call.past.present
    /\ Len(attn_call.input) >= 2
    /\ attn_call.result.raised = "none"
    /\ attn_call.result.path = "plain"

----------------------------------------------------------------------------
(* C21 *)

\* the values a query or key vector of the decoder's head_dim may take
RotationInputs ==
    [1..(config.d_model \div config.attention_n_heads) -> {-1, 0, 1}]

\* C21: the vector RoPE.forward returns for a query or key vector v at a
\* position within the table has the Euclidean norm of v: the squares of its
\* channels sum to the squares of v's
C21_NormPreserved ==
    (rope_call.made /\ rope_call.result.raised = "none") =>
        \A i \in 1..rope_call.seq_len, v \in RotationInputs :
            /\ LET q == Rotated(rope_call.result.queries[i], v)
               IN  NormSquared(q.num) = NormSquared(v) * q.den * q.den
            /\ LET k == Rotated(rope_call.result.keys[i], v)
               IN  NormSquared(k.num) = NormSquared(v) * k.den * k.den

\* a vector at a position past the first has been turned: its channels
\* changed, and none of them is a channel of v scaled
C21_Witness ==
    /\ rope_call.made
    /\ rope_call.result.raised = "none"
    /\ rope_call.start_pos > 0
    /\ \E i \in 1..rope_call.seq_len, v \in RotationInputs :
          LET q == Rotated(rope_call.result.queries[i], v)
          IN  /\ NormSquared(v) > 0
              /\ \A k \in 1..Len(v) : q.num[k] # v[k] * q.den

----------------------------------------------------------------------------
(* C22 *)

\* the columns of m have unit length and are pairwise orthogonal
OrthonormalColumns(m) ==
    \A i \in 1..Len(m[1]), j \in 1..Len(m[1]) :
        SumTo([k \in 1..Len(m) |-> m[k][i] * m[k][j]], Len(m))
            = IF i = j THEN 1 ELSE 0

\* C22: get_orthogonality_loss returns 0 when every target matrix has
\* orthonormal columns and a positive value when one has not: the total is
\* a sum of square roots, 0 when every radicand is 0 and positive when one
\* is positive and none negative
C22_ZeroIffOrthonormal ==
    (loss_call.made /\ loss_call.fn = "get_orthogonality_loss") =>
        /\ loss_call.raised = "none"
        /\ loss_call.value.present
        /\ \A m \in DOMAIN weights :
              /\ loss_call.value.val[m] >= 0
              /\ OrthonormalColumns(weights[m]) <=> loss_call.value.val[m] = 0

\* a call on matrices with orthonormal columns, one of them not square,
\* returned 0
C22_Witness ==
    /\ loss_call.made
    /\ loss_call.fn = "get_orthogonality_loss"
    /\ \A m \in DOMAIN weights : OrthonormalColumns(weights[m])
    /\ \E m \in DOMAIN weights : weights[m] = Tall
    /\ \A m \in DOMAIN weights : loss_call.value.val[m] = 0

----------------------------------------------------------------------------
(* C26 *)

\* line 344: the second value Attention.forward returns is the tuple
\* (cached_keys, cached_values), whatever its components are; line 435 hands
\* it on as PicoDecoderBlock.forward's.  As an optional value, it is present.
ReturnedCache(result) == Some(result.cache)

\* C26: a call with use_cache False that returns, returns None as its cache
C26_NoCacheIsNone ==
    (attn_call.made /\ attn_call.result.raised = "none"
     /\ ~attn_call.use_cache) =>
        ReturnedCache(attn_call.result) = None

----------------------------------------------------------------------------
(* C27 *)

\* the position of the table row that produced a rotated vector
RowOf(rotated) == rotated[2][1].pos

\* C27: RoPE.forward applies row start_pos + i of the table to the token at
\* index i (from 0), so exactly the rows start_pos .. start_pos + seq_len - 1
\* and, from start_pos 0, the rows 0 .. L - 1; Attention.forward starts at
\* the length of the layer's prior cache, or at 0 without one
C27_RowsConsulted ==
    /\ (rope_call.made /\ rope_call.result.raised = "none") =>
          /\ \A i \in 1..rope_call.seq_len :
                /\ RowOf(rope_call.result.queries[i])
                      = rope_call.start_pos + i - 1
                /\ RowOf(rope_call.result.keys[i])
                      = rope_call.start_pos + i - 1
                /\ rope_call.result.queries[i][3] = <<"q", i>>
                /\ rope_call.result.keys[i][3] = <<"k", i>>
          /\ { RowOf(rope_call.result.queries[i]) :
                  i \in 1..Len(rope_call.result.queries) }
                = rope_call.start_pos
                    ..(rope_call.start_pos + rope_call.seq_len - 1)
    /\ (call.made /\ call.result.raised = "none" /\ call.use_cache) =>
          \A l \in 1..config.n_layers, i \in 1..Len(call.input_ids) :
              LET P == IF call.past.present THEN CacheLen(call.past, l, 1)
                       ELSE 0
              IN  RowOf(call.result.cache.val[l][1].val[P + i]) = P + i - 1

\* a call with a prior cache and several new tokens returned: each layer
\* called its rope from a start_pos past 0
C27_Witness ==
    /\ call.made
    /\ call.result.raised = "none"
    /\ call.use_cache
    /\ call.past.present
    /\ CacheLen(call.past, 1, 1) > 0
    /\ Len(call.input_ids) > 1

----------------------------------------------------------------------------
(* C28 *)

\* C28: the cache of a session that started from no cache has one entry per
\* layer, and the keys and the values of every entry are as long as the
\* tokens fed so far; so in a call that receives it, the start_pos every
\* layer derives from its own entry is the one the stack derives from the
\* first layer's keys
C28_SharedOffset ==
    /\ past_key_values.present =>
          /\ Len(past_key_values.val) = config.n_layers
          /\ \A l \in 1..config.n_layers, k \in 1..2 :
                CacheLen(past_key_values, l, k) = Len(fed.tokens)
    /\ (call.made /\ call.past.present) =>
          \A l \in 1..config.n_layers :
              Attention_start_pos(LayerPast(call.past, l))
                  = CacheLen(call.past, 1, 1)

\* the cache of a session of two calls is handed to a third call
C28_Witness ==
    /\ call.made
    /\ call.past.present
    /\ Len(call.prior.tokens) > MaxInputLen
    /\ CacheLen(call.past, config.n_layers, 2) = Len(call.prior.tokens)

----------------------------------------------------------------------------
(* C29 *)

\* C29: when a forward call that was passed the caller's cache has run, with
\* use_cache True or False, the caller's cache is what was passed in, tensor
\* by tensor; and the first P positions of every key and value tensor of a
\* returned cache are the prior tensor of P positions
C29_PriorCacheKept ==
    (call.made /\ call.past.present) =>
        /\ past_key_values = call.past
        /\ (call.result.raised = "none" /\ call.use_cache) =>
              \A l \in 1..config.n_layers, k \in 1..2 :
                  SubSeq(call.result.cache.val[l][k].val, 1,
                         CacheLen(call.past, l, k))
                      = call.past.val[l][k].val

\* a call returned a cache that extends the values of the last layer
C29_Witness ==
    /\ call.made
    /\ call.past.present
    /\ call.use_cache
    /\ call.result.raised = "none"
    /\ CacheLen(call.past, config.n_layers, 2) > 0
    /\ CacheLen(call.result.cache, config.n_layers, 2)
          = CacheLen(call.past, config.n_layers, 2) + Len(call.input_ids)

----------------------------------------------------------------------------
(* C23, C24, C25, C30: the training run *)

\* _training_loop was entered (line 300)
LoopEntered ==
    /\ trainer.pc \notin {"none", "constructed"}
    /\ trainer.initial_batch_step < trainer.configs.max_steps

\* C23: _training_loop, entered with initial_batch_step < max_steps, returns
\* a step of at most max_steps; it returns max_steps when the iterator held
\* at least (max_steps - initial_batch_step) * gradient_accumulation_steps
\* sub-batches, and a smaller step only when the iterator was exhausted
C23_LoopReturnsMaxSteps ==
    (LoopEntered /\ trainer.pc \in {"after_loop", "returned", "raised"}) =>
        /\ trainer.pc # "raised"
        /\ trainer.final_step <= trainer.configs.max_steps
        /\ (trainer.sub_batches >=
               (trainer.configs.max_steps - trainer.initial_batch_step)
                   * trainer.configs.gradient_accumulation_steps)
              => trainer.final_step = trainer.configs.max_steps
        /\ trainer.final_step < trainer.configs.max_steps
              => trainer.exhausted

\* C24: at the start of every iteration batch_step is sub_batch_step div
\* gradient_accumulation_steps, also after a resume; the optimizer step,
\* zero_grad, the scheduler step and the increment of batch_step are taken
\* together, once, on a sub-batch whose sub_batch_step + 1 is a multiple of
\* gradient_accumulation_steps, and on no other
C24_AccumulationRatio ==
    /\ [](trainer.pc \in {"loop", "sub_batch"} =>
             trainer.batch_step =
                 trainer.sub_batch_step
                     \div trainer.configs.gradient_accumulation_steps)
    /\ [](LoopEntered =>
             /\ trainer.optimizer_steps
                   = trainer.batch_step - trainer.initial_batch_step
             /\ trainer.zero_grads = trainer.optimizer_steps
             /\ trainer.scheduler_steps = trainer.optimizer_steps)
    /\ [][trainer'.optimizer_steps # trainer.optimizer_steps =>
             /\ trainer'.optimizer_steps = trainer.optimizer_steps + 1
             /\ trainer.pc = "sub_batch"
             /\ (trainer.sub_batch_step + 1)
                    % trainer.configs.gradient_accumulation_steps = 0]_vars
    /\ [][(trainer.pc = "sub_batch" /\ trainer'.pc = "loop") =>
             (trainer'.optimizer_steps = trainer.optimizer_steps + 1
              <=> (trainer.sub_batch_step + 1)
                     % trainer.configs.gradient_accumulation_steps = 0)]_vars

\* a resumed run with accumulation over several sub-batches has taken an
\* optimizer step and started the next iteration
C24_Witness ==
    /\ trainer.pc = "loop"
    /\ trainer.initial_batch_step > 0
    /\ trainer.configs.gradient_accumulation_steps > 1
    /\ trainer.optimizer_steps > 0

\* loss.item() of a finite loss under the run's strategy
LossItem ==
    IF trainer.configs.rank_normalization_strategy
          \in {"orthogonality_loss", "frobenius_loss"}
    THEN 2 ELSE 1

\* C25: a sub-batch with a non-finite loss is counted in
\* interval_inf_or_nan_count and adds nothing to interval_loss and
\* interval_steps, and logging the interval's metrics never raises, whatever
\* the strategy and also when interval_steps is 0
C25_NonFiniteHandled ==
    /\ (trainer.pc = "sub_batch" /\ trainer.loss \in {"nan", "inf"}) =>
          trainer.interval_inf_or_nan_count >= 1
    /\ trainer.pc \in {"loop", "sub_batch"} =>
          trainer.interval_loss = LossItem * trainer.interval_steps
    /\ trainer.raised = "none"

\* the batch steps after `from` up to `to` that are multiples of
\* save_every_n_steps, in order
SavedInLoop(from, to) ==
    LET IsMultiple(b) == b % trainer.configs.save_every_n_steps = 0
    IN  SelectSeq([i \in 1..(to - from) |-> from + i], IsMultiple)

\* C30: save_checkpoint is called for the initial step before the loop, for
\* every batch_step that is a multiple of save_every_n_steps right after the
\* optimizer step that reaches it, and once more after the loop exactly when
\* final_step is not a multiple; when train returns, the last checkpoint
\* saved is the one of final_step
C30_FinalCheckpoint ==
    /\ trainer.pc \notin {"none", "constructed"} =>
          /\ Len(trainer.checkpoints) >= 1
          /\ trainer.checkpoints[1] = trainer.initial_batch_step
    /\ (LoopEntered /\ trainer.pc \in {"loop", "sub_batch", "after_loop"}) =>
          trainer.checkpoints =
              <<trainer.initial_batch_step>>
                  \o SavedInLoop(trainer.initial_batch_step,
                                 trainer.batch_step)
    /\ trainer.pc = "returned" =>
          /\ trainer.checkpoints[Len(trainer.checkpoints)]
                = trainer.final_step
          /\ trainer.checkpoints =
                <<trainer.initial_batch_step>>
                    \o SavedInLoop(trainer.initial_batch_step,
                                   trainer.final_step)
                    \o (IF trainer.final_step
                              % trainer.configs.save_every_n_steps # 0
                        THEN <<trainer.final_step>> ELSE <<>>)

\* a run has returned with the initial checkpoint, a checkpoint saved in the
\* loop and a final checkpoint saved after the loop
C30_Witness ==
    /\ trainer.pc = "returned"
    /\ Len(trainer.checkpoints) >= 3
    /\ trainer.final_step % trainer.configs.save_every_n_steps # 0

====
